---- MODULE Spec2Model ----
(***************************************************************************)
(* A model of two graph passes of tf2onnx:                                 *)
(*   - MergeDuplicatedNodesOptimizer                                       *)
(*       (tf2onnx/optimizer/merge_duplicated_nodes_optimizer.py)           *)
(*   - LoopRewriterBase (tf2onnx/rewriter/loop_rewriter_base.py)           *)
(* A graph is a map from node names to node objects (type, ordered input   *)
(* tensor ids, ordered output tensor ids, attribute map) plus the list of  *)
(* the names currently in the graph and the declared graph outputs.  A     *)
(* tensor id is the pair <<producer name, output position>>.               *)
(***************************************************************************)
EXTENDS Integers, Sequences, FiniteSets, TLC

VARIABLES
    g_nodes,                 \* Node objects by name (objects outlive removal)
    g_order,                 \* graph.get_nodes(): names in listing order
    g_outputs,               \* graph.outputs: declared output tensor ids
    graph_can_be_optimized,  \* MergeDuplicatedNodesOptimizer._graph_can_be_optimized
    pc,                      \* position of the running pass
    nodes_groups,            \* the round's groups, in key insertion order
    gi,                      \* index of the group being handled
    g0,                      \* history: the graph handed to the first run
    runs,                    \* history: completed invocations
    rounds,                  \* history: rounds of the current/last invocation
    merges,                  \* history: one record per deletion
    fixed,                   \* history: the graph returned by the first run
    loopcond_ops,            \* run_internal's loopcond_ops
    li,                      \* index of the LoopCond node being handled
    context,                 \* the Context of the loop being handled
    switch_nodes,            \* _parse_loop_variables' switch_nodes
    si,                      \* index of the Switch node being classified
    error,                   \* the exception that ended the pass, or "none"
    done                     \* history: one record per loop handled

mvars == <<graph_can_be_optimized, nodes_groups, gi, runs, rounds, merges, fixed>>
lvars == <<loopcond_ops, li, context, switch_nodes, si, error, done>>
gvars == <<g_nodes, g_order, g_outputs>>
vars == <<gvars, pc, g0, mvars, lvars>>

\* ------------------------------------------------------------------ bounds
MaxNodes == 3
MaxRuns == 2

\* ------------------------------------------------------- sequence helpers
Range(s) == {s[i] : i \in DOMAIN s}

Min2(a, b) == IF a < b THEN a ELSE b

RECURSIVE FilterNames(_, _)
\* the elements of the sequence s that are in the set keep, in order
FilterNames(s, keep) ==
    IF s = <<>> THEN <<>>
    ELSE IF Head(s) \in keep THEN <<Head(s)>> \o FilterNames(Tail(s), keep)
         ELSE FilterNames(Tail(s), keep)

\* --------------------------------------------------- the graph collaborator
Tensor(n, i) == <<n, i>>

\* Graph.replace_all_inputs(ops, old_input, new_input)
replace_all_inputs(ns, ops, old_input, new_input) ==
    IF old_input = new_input THEN ns
    ELSE [n \in DOMAIN ns |->
            IF n \in ops
            THEN [ns[n] EXCEPT !.input =
                    [i \in DOMAIN @ |-> IF @[i] = old_input THEN new_input ELSE @[i]]]
            ELSE ns[n]]

\* Graph.remove_node(name): the listing without it
remove_node(ord, name) == FilterNames(ord, Range(ord) \ {name})

\* Graph.find_output_consumers(tensor): names, in listing order
find_output_consumers(ns, ord, t) ==
    FilterNames(ord, {n \in Range(ord) : t \in Range(ns[n].input)})

\* Node.is_graph_input()
is_graph_input(node) == node.type = "Placeholder"

\* ------------------------------------------ MergeDuplicatedNodesOptimizer
\* _KeyToGroupNodes(node.type, tuple(node.input))
KeyToGroupNodes(node) == <<node.type, node.input>>

RECURSIVE group_nodes_by_type_inputs(_, _, _)
\* res[key].append(node) for node in graph.get_nodes(); groups in insertion order
group_nodes_by_type_inputs(ns, ord, res) ==
    IF ord = <<>> THEN res
    ELSE LET n == Head(ord)
             hit == {i \in DOMAIN res :
                        KeyToGroupNodes(ns[res[i][1]]) = KeyToGroupNodes(ns[n])}
         IN group_nodes_by_type_inputs(ns, Tail(ord),
                IF hit = {} THEN Append(res, <<n>>)
                ELSE [i \in DOMAIN res |->
                        IF i \in hit THEN Append(res[i], n) ELSE res[i]])

\* mutant: only graph inputs are skipped
skip_node_type_no_identity(node) == is_graph_input(node)

\* _skip_node_type(node)
skip_node_type(node) ==
    IF node.type \in {"Identity"} THEN TRUE
    ELSE IF is_graph_input(node) THEN TRUE
    ELSE FALSE

\* _len_of_node_output(node)
len_of_node_output(node) == Len(node.output)

\* mutant: the attribute maps are not compared
same_attr_ignored(ns, a, b) == TRUE

\* the attribute test of _del_nodes_if_duplicated
same_attr(ns, a, b) == ns[a].attr = ns[b].attr

\* nodes_to_process of one pass of _del_nodes_if_duplicated's while loop
to_process(ns, group) ==
    <<group[1]>> \o
    FilterNames(Tail(group), {n \in Range(group) : same_attr(ns, n, group[1])})

\* unprocessed_node of the same pass
unprocessed(ns, group) ==
    FilterNames(Tail(group), {n \in Range(group) : ~same_attr(ns, n, group[1])})

RECURSIVE sort_from(_, _, _)
\* the names of s whose key is k, then those of k-1, ... (a stable descending sort)
sort_from(ns, s, k) ==
    IF k < 0 THEN <<>>
    ELSE FilterNames(s, {n \in Range(s) : len_of_node_output(ns[n]) = k})
         \o sort_from(ns, s, k - 1)

MaxKey(ns, s) ==
    CHOOSE k \in {len_of_node_output(ns[n]) : n \in Range(s)} :
        \A n \in Range(s) : len_of_node_output(ns[n]) <= k

\* mutant: the class is left in group order
sort_missing(ns, s) == s

\* nodes_to_process.sort(key=self._len_of_node_output, reverse=True)
sort_by_len_of_output(ns, s) == sort_from(ns, s, MaxKey(ns, s))

\* set(node_to_delete.output).intersection(set(graph.outputs))
is_graph_output(ns, outs, n) == Range(ns[n].output) \cap outs # {}

\* mutant: only the first output of the node to delete is rewired
rewire_first_only(ns, ops, olds, news, i) ==
    IF olds = <<>> \/ news = <<>> THEN ns
    ELSE replace_all_inputs(ns, ops, olds[1], news[1])

RECURSIVE rewire(_, _, _, _, _)
\* for old_input, new_input in zip(node_to_delete.output, node_to_retain.output):
\*     graph.replace_all_inputs(graph.get_nodes(), old_input, new_input)
rewire(ns, ops, olds, news, i) ==
    IF i > Min2(Len(olds), Len(news)) THEN ns
    ELSE rewire(replace_all_inputs(ns, ops, olds[i], news[i]), ops, olds, news, i + 1)

\* the history record of a deletion: the two nodes as they are when it happens
Deletion(st, sorted, i) ==
    [deleted |-> sorted[i], retained |-> sorted[1], cls |-> sorted,
     d |-> st.ns[sorted[i]], r |-> st.ns[sorted[1]]]

\* mutant: the declared graph outputs are not looked at
merge_one_any(st, outs, sorted, i) ==
    [ns |-> rewire(st.ns, Range(st.ord), st.ns[sorted[i]].output,
                   st.ns[sorted[1]].output, 1),
     ord |-> remove_node(st.ord, sorted[i]),
     dirty |-> TRUE,
     log |-> Append(st.log, Deletion(st, sorted, i))]

\* mutant: a deletion does not set _graph_can_be_optimized
merge_one_not_dirty(st, outs, sorted, i) ==
    IF is_graph_output(st.ns, outs, sorted[i]) THEN st
    ELSE [ns |-> rewire(st.ns, Range(st.ord), st.ns[sorted[i]].output,
                        st.ns[sorted[1]].output, 1),
          ord |-> remove_node(st.ord, sorted[i]),
          dirty |-> st.dirty,
          log |-> Append(st.log, Deletion(st, sorted, i))]

\* mutant: _graph_can_be_optimized is set before the outputs are looked at
merge_one_always_dirty(st, outs, sorted, i) ==
    IF is_graph_output(st.ns, outs, sorted[i]) THEN [st EXCEPT !.dirty = TRUE]
    ELSE [ns |-> rewire(st.ns, Range(st.ord), st.ns[sorted[i]].output,
                        st.ns[sorted[1]].output, 1),
          ord |-> remove_node(st.ord, sorted[i]),
          dirty |-> TRUE,
          log |-> Append(st.log, Deletion(st, sorted, i))]

\* one pass of the for loop of _merge_nodes_that_are_duplicated, for
\* node_to_retain = sorted[1] and node_to_delete = sorted[i]; st is the graph being
\* rewritten with the dirty flag and the history of deletions
merge_one(st, outs, sorted, i) ==
    IF is_graph_output(st.ns, outs, sorted[i]) THEN st
    ELSE [ns |-> rewire(st.ns, Range(st.ord), st.ns[sorted[i]].output,
                        st.ns[sorted[1]].output, 1),
          ord |-> remove_node(st.ord, sorted[i]),
          dirty |-> TRUE,
          log |-> Append(st.log, Deletion(st, sorted, i))]

RECURSIVE merge_from(_, _, _, _)
\* for node_to_delete in nodes_to_process[1:]
merge_from(st, outs, sorted, i) ==
    IF i > Len(sorted) THEN st
    ELSE merge_from(merge_one(st, outs, sorted, i), outs, sorted, i + 1)

\* _merge_nodes_that_are_duplicated(nodes_to_process, graph)
merge_nodes_that_are_duplicated(st, outs, to_proc) ==
    merge_from(st, outs, sort_by_len_of_output(st.ns, to_proc), 2)

RECURSIVE del_nodes_if_duplicated(_, _, _)
\* _del_nodes_if_duplicated(nodes_group, graph)
del_nodes_if_duplicated(st, outs, group) ==
    IF Len(group) <= 1 THEN st
    ELSE del_nodes_if_duplicated(
            merge_nodes_that_are_duplicated(st, outs, to_process(st.ns, group)),
            outs, unprocessed(st.ns, group))

\* ------------------------------------------------- graphs handed to the pass
T0 == Tensor(0, 1)   \* a tensor produced outside the graph

MkNode(name, type, input, nout, attr) ==
    [type |-> type, input |-> input,
     output |-> [i \in 1..nout |-> Tensor(name, i)], attr |-> attr]

\* the tensors a new node of the graph g (a sequence of nodes) may consume
Tensors(g) == {T0} \cup UNION {Range(g[n].output) : n \in DOMAIN g}

\* the nodes that may be appended to g
NewNodes(g) ==
    LET k == Len(g) + 1
    IN {MkNode(k, "Placeholder", <<>>, 1, 0)}
       \cup {MkNode(k, "Identity", <<t>>, 1, 0) : t \in Tensors(g)}
       \cup {MkNode(k, "Abs", <<t>>, 1, a) : t \in Tensors(g), a \in {0, 1}}
       \cup {MkNode(k, "Split", <<t>>, n, 0) : t \in Tensors(g), n \in {1, 2}}

RECURSIVE Graphs(_)
\* every graph of k nodes, each consuming T0 or outputs of earlier nodes
Graphs(k) ==
    IF k = 0 THEN {<<>>}
    ELSE UNION {{Append(g, nd) : nd \in NewNodes(g)} : g \in Graphs(k - 1)}

\* two duplicated producers 1, 2 and two consumers of the same kind, each reading
\* either producer: consumers of different producers become duplicates of each
\* other only once producer 2 is merged into producer 1
ChainGraphs ==
    {<<MkNode(1, pk[1], <<T0>>, pk[2], pk[3]), MkNode(2, pk[1], <<T0>>, pk[2], pk[3]),
       MkNode(3, ck[1], <<Tensor(x, 1)>>, ck[2], ck[3]),
       MkNode(4, ck[1], <<Tensor(y, 1)>>, ck[2], ck[3])>> :
        pk \in {<<"Abs", 1, 0>>, <<"Split", 2, 0>>},
        ck \in {<<"Abs", 1, 1>>, <<"Split", 2, 0>>, <<"Identity", 1, 0>>},
        x \in {1, 2}, y \in {1, 2}}

\* three "Abs" nodes over T0 and three consumers of distinct types; c maps each
\* consumer to the "Abs" node it reads
AbsGraph(c) ==
    <<MkNode(1, "Abs", <<T0>>, 1, 0), MkNode(2, "Abs", <<T0>>, 1, 0),
      MkNode(3, "Abs", <<T0>>, 1, 0),
      MkNode(4, "Neg", <<Tensor(c[1], 1)>>, 1, 0),
      MkNode(5, "Exp", <<Tensor(c[2], 1)>>, 1, 0),
      MkNode(6, "Log", <<Tensor(c[3], 1)>>, 1, 0)>>

AbsGraphs == {AbsGraph(c) : c \in [1..3 -> 1..3]}

\* two nodes of two inputs over the outputs of two producers
AddGraphs ==
    {<<MkNode(1, "Abs", <<T0>>, 1, 0), MkNode(2, "Neg", <<T0>>, 1, 0),
       MkNode(3, "Add", <<Tensor(x[1], 1), Tensor(x[2], 1)>>, 1, 0),
       MkNode(4, "Add", <<Tensor(y[1], 1), Tensor(y[2], 1)>>, 1, 0)>> :
        x \in {1, 2} \X {1, 2}, y \in {1, 2} \X {1, 2}}

\* the declared outputs: none, one or two first outputs
OutputChoices(g) ==
    {{}} \cup {{Tensor(a, 1), Tensor(b, 1)} : a \in DOMAIN g, b \in DOMAIN g}

Names(g) == [i \in DOMAIN g |-> i]

\* two nodes of g share a grouping key: only then has a round anything to decide
HasSharedKey(g) ==
    \E a \in DOMAIN g : \E b \in DOMAIN g :
        a < b /\ KeyToGroupNodes(g[a]) = KeyToGroupNodes(g[b])

\* the rewriter's variables while the optimizer runs
IdleLoopVars ==
    /\ loopcond_ops = <<>>
    /\ li = 1
    /\ context = <<>>
    /\ switch_nodes = <<>>
    /\ si = 1
    /\ error = "none"
    /\ done = <<>>

InitMergeVars ==
    /\ IdleLoopVars
    /\ graph_can_be_optimized = TRUE
    /\ pc = "idle"
    /\ nodes_groups = <<>>
    /\ gi = 1
    /\ g0 = [ns |-> g_nodes, ord |-> g_order]
    /\ runs = 0
    /\ rounds = 0
    /\ merges = <<>>
    /\ fixed = [ns |-> g_nodes, ord |-> g_order]

InitMerge ==
    /\ \E g \in {h \in Graphs(MaxNodes) : HasSharedKey(h)} \cup ChainGraphs \cup AbsGraphs
                \cup AddGraphs :
       \E outs \in OutputChoices(g) :
          /\ g_nodes = g
          /\ g_order = Names(g)
          /\ g_outputs = outs
    /\ InitMergeVars

\* ------------------------------------------------------ the optimizer's steps
\* a new optimizer instance: __init__
Construct ==
    /\ pc = "idle"
    /\ runs > 0
    /\ runs < MaxRuns
    /\ ~graph_can_be_optimized
    /\ graph_can_be_optimized' = TRUE
    /\ UNCHANGED <<gvars, pc, nodes_groups, gi, g0, runs, rounds, merges, fixed, lvars>>

\* _optimize_at_current_graph_level(graph) is entered
Invoke ==
    /\ pc = "idle"
    /\ runs < MaxRuns
    /\ pc' = "while"
    /\ nodes_groups' = <<>>
    /\ gi' = 1
    /\ rounds' = 0
    /\ UNCHANGED <<gvars, graph_can_be_optimized, g0, runs, merges, fixed, lvars>>

\* the while test holds: the flag is cleared and _merge_duplicated_nodes groups the nodes
StartRound ==
    /\ pc = "while"
    /\ gi > Len(nodes_groups)
    /\ graph_can_be_optimized
    /\ graph_can_be_optimized' = FALSE
    /\ nodes_groups' = group_nodes_by_type_inputs(g_nodes, g_order, <<>>)
    /\ gi' = 1
    /\ rounds' = rounds + 1
    /\ UNCHANGED <<gvars, pc, g0, runs, merges, fixed, lvars>>

\* _merge_duplicated_nodes: the group's first node is of a skipped type
SkipGroup ==
    /\ pc = "while"
    /\ gi <= Len(nodes_groups)
    /\ skip_node_type(g_nodes[nodes_groups[gi][1]])
    /\ gi' = gi + 1
    /\ UNCHANGED <<gvars, graph_can_be_optimized, pc, nodes_groups, g0, runs, rounds,
                   merges, fixed, lvars>>

\* _merge_duplicated_nodes: _del_nodes_if_duplicated(nodes_group, graph)
DelNodesIfDuplicated ==
    /\ pc = "while"
    /\ gi <= Len(nodes_groups)
    /\ ~skip_node_type(g_nodes[nodes_groups[gi][1]])
    /\ LET st == del_nodes_if_duplicated(
                    [ns |-> g_nodes, ord |-> g_order,
                     dirty |-> graph_can_be_optimized, log |-> merges],
                    g_outputs, nodes_groups[gi])
       IN /\ g_nodes' = st.ns
          /\ g_order' = st.ord
          /\ graph_can_be_optimized' = st.dirty
          /\ merges' = st.log
    /\ gi' = gi + 1
    /\ UNCHANGED <<g_outputs, pc, nodes_groups, g0, runs, rounds, fixed, lvars>>

\* the while test fails: return graph
Return ==
    /\ pc = "while"
    /\ gi > Len(nodes_groups)
    /\ ~graph_can_be_optimized
    /\ pc' = "idle"
    /\ runs' = runs + 1
    /\ fixed' = IF runs = 0 THEN [ns |-> g_nodes, ord |-> g_order] ELSE fixed
    /\ UNCHANGED <<gvars, graph_can_be_optimized, nodes_groups, gi, g0, rounds, merges, lvars>>

NextMerge ==
    \/ Construct
    \/ Invoke
    \/ StartRound
    \/ SkipGroup
    \/ DelNodesIfDuplicated
    \/ Return

SpecMerge == InitMerge /\ [][NextMerge]_vars

\* --------------------------------------------------------------- claims C1-C5
Graph == [ns |-> g_nodes, ord |-> g_order]
InGraph(n) == n \in Range(g_order)
Pos(ord, n) == CHOOSE i \in DOMAIN ord : ord[i] = n
Exempt(node) == node.type = "Identity" \/ node.type = "Placeholder"
Duplicates(ns, a, b) ==
    /\ a # b
    /\ ns[a].type = ns[b].type
    /\ ns[a].input = ns[b].input
    /\ ns[a].attr = ns[b].attr

\* C1: a node one of whose outputs is a declared graph output is never deleted, in
\* no round, even when a node of the same type, inputs and attributes exists.
C1_OutputNodesKept ==
    \A n \in DOMAIN g_nodes :
        Range(g_nodes[n].output) \cap g_outputs # {} => InGraph(n)

\* a run has ended and left a node with a declared output beside its duplicate
C1_Witness ==
    /\ pc = "idle" /\ runs >= 1
    /\ \E a \in Range(g_order) : \E b \in Range(g_order) :
          /\ Duplicates(g_nodes, a, b)
          /\ ~Exempt(g_nodes[a])
          /\ Range(g_nodes[b].output) \cap g_outputs # {}
          /\ Range(g_nodes[a].output) \cap g_outputs = {}

\* C2: a second run on the graph a first run returned changes nothing: no node is
\* deleted and no input is rewired.
C2_SecondRunChangesNothing ==
    runs >= 1 => Graph = fixed

\* a second run, by a new optimizer instance, has gone through a round on a graph
\* in which the first run needed two rounds of deletions
C2_Witness ==
    /\ pc = "idle" /\ runs = 2 /\ rounds >= 1
    /\ Len(merges) >= 2

\* the nodes of the listing ord that consume the tensor t
ConsumersOf(ns, ord, t) == {n \in Range(ord) : t \in Range(ns[n].input)}
\* the number of outputs of n that some node consumes or the graph declares
ConsumedOutputs(ns, ord, n) ==
    Cardinality({t \in Range(ns[n].output) :
                    ConsumersOf(ns, ord, t) # {} \/ t \in g_outputs})
\* the number of consumers of the first output of n
ConsumerCount(ns, ord, n) == Cardinality(ConsumersOf(ns, ord, ns[n].output[1]))
AbsNodes(ns, ord) == {n \in Range(ord) : ns[n].type = "Abs"}
\* three "Abs" nodes of the same single input, without attributes, none a declared
\* output, with 1, 2 and 0 consumers
AbsScenario ==
    LET A == AbsNodes(g0.ns, g0.ord)
    IN /\ Cardinality(A) = 3
       /\ \A a \in A : /\ g0.ns[a].input = <<T0>>
                       /\ g0.ns[a].attr = 0
                       /\ Range(g0.ns[a].output) \cap g_outputs = {}
       /\ \A k \in {0, 1, 2} : \E a \in A : ConsumerCount(g0.ns, g0.ord, a) = k
\* the consumers of the three "Abs" nodes in the graph handed over
AbsConsumers ==
    UNION {ConsumersOf(g0.ns, g0.ord, g0.ns[a].output[1]) : a \in AbsNodes(g0.ns, g0.ord)}

C4_MergedAreDuplicates ==
    \A i \in DOMAIN merges :
        /\ merges[i].d.type = merges[i].r.type
        /\ merges[i].d.input = merges[i].r.input
        /\ merges[i].d.attr = merges[i].r.attr
        /\ merges[i].deleted # merges[i].retained

\* in the first round of the first run, a node is deleted whose inputs an earlier
\* merge of that round rewired
C4_Witness ==
    /\ runs = 0 /\ rounds = 1
    /\ \E i \in DOMAIN merges :
          merges[i].d.input # g0.ns[merges[i].deleted].input

\* C5: Identity nodes and graph-input nodes are never merged: none is deleted, and
\* no consumer is rewired away from or onto an output of such a node.
C5_ExemptNeverMerged ==
    /\ \A n \in DOMAIN g_nodes : Exempt(g_nodes[n]) => InGraph(n)
    /\ \A i \in DOMAIN merges : ~Exempt(merges[i].d) /\ ~Exempt(merges[i].r)
    /\ \A n \in DOMAIN g_nodes : \A k \in DOMAIN g_nodes[n].input :
          \A e \in DOMAIN g_nodes :
              Exempt(g_nodes[e]) =>
                  (g_nodes[n].input[k] \in Range(g_nodes[e].output)
                     <=> g0.ns[n].input[k] \in Range(g_nodes[e].output))

\* a run has ended with deletions and left two Identity nodes, or two graph inputs,
\* of the same inputs and attributes
C5_Witness ==
    /\ pc = "idle" /\ runs >= 1 /\ merges # <<>>
    /\ \E a \in Range(g_order) : \E b \in Range(g_order) :
          Duplicates(g_nodes, a, b) /\ g_nodes[a].type = "Identity"

\* ===================================================== LoopRewriterBase
\* ----------------------------------------------- the graphs handed to the pass
MaxLoops == 2

\* node and tensor names of the loop l: variable v (0: the condition), role
NN(l, v, role) == <<l, v, role>>
TT(l, v, role) == Tensor(NN(l, v, role), 1)
None == Tensor(NN(0, 0, "None"), 1)
\* INVALID_INPUT_ID = utils.make_name("invalid_input_id")
INVALID_INPUT_ID == Tensor(NN(0, 0, "invalid_input_id"), 1)

Pair(name, type, input, nout) == <<name, MkNode(name, type, input, nout, 0)>>

HasIdentity(t) == t \in {"identity", "two"}
\* the body-entry value of variable 1 where the body reads it, else the invariant
Entry1(l, s) == IF HasIdentity(s.t1) THEN TT(l, 1, "Identity") ELSE TT(l, 0, "EnterInv")
\* what the body of variable 2 adds: the element read from the input tensor array
Operand2(l, s) == IF s.scan THEN TT(l, 3, "Read") ELSE Entry1(l, s)

\* the predicate: LoopCond(Less(a, b)) over Merge outputs or a loop invariant
CondNodes(l, s) ==
    <<Pair(NN(l, 0, "outer"), s.inv, <<>>, 1),
      Pair(NN(l, 0, "EnterInv"), "Enter", <<TT(l, 0, "outer")>>, 1),
      Pair(NN(l, 0, "Less"), "Less",
           <<IF s.ca = "merge" THEN TT(l, 1, "Merge") ELSE TT(l, 0, "EnterInv"),
             IF s.cb = "merge" THEN TT(l, 2, "Merge") ELSE TT(l, 0, "EnterInv")>>, 1),
      Pair(NN(l, 0, "LoopCond"), "LoopCond", <<TT(l, 0, "Less")>>, 1)>>

\* the consumers of a Switch's true output (output[1] in the source, the second)
TrueNodes(l, v, t) ==
    (IF HasIdentity(t)
     THEN <<Pair(NN(l, v, "Identity"), "Identity", <<Tensor(NN(l, v, "Switch"), 2)>>, 1)>>
     ELSE <<>>)
    \o (IF t \in {"other", "two"}
        THEN <<Pair(NN(l, v, "Direct"), "Neg", <<Tensor(NN(l, v, "Switch"), 2)>>, 1)>>
        ELSE <<>>)

\* the consumers of a Switch's false output (output[0] in the source, the first)
FalseNodes(l, v, f, ta) ==
    (IF f \in {"exit", "two"}
     THEN <<Pair(NN(l, v, "Exit"), "Exit", <<Tensor(NN(l, v, "Switch"), 1)>>, 1)>>
          \o (IF ta
              THEN <<Pair(NN(l, v, "Gather"), "TensorArrayGatherV3",
                          <<TT(l, v, "init"), TT(l, v, "Exit")>>, 1),
                     Pair(NN(l, v, "Result"), "Identity", <<TT(l, v, "Gather")>>, 1)>>
              ELSE <<Pair(NN(l, v, "Result"), "Identity", <<TT(l, v, "Exit")>>, 1)>>)
     ELSE <<>>)
    \o (IF f \in {"other", "two"}
        THEN <<Pair(NN(l, v, "Leak"), "Neg", <<Tensor(NN(l, v, "Switch"), 1)>>, 1)>>
        ELSE <<>>)

\* variable 1: a counter kept as a state variable
Var1Nodes(l, s) ==
    <<Pair(NN(l, 1, "init"), "Const", <<>>, 1),
      Pair(NN(l, 1, "Enter"), "Enter", <<TT(l, 1, "init")>>, 1),
      Pair(NN(l, 1, "Merge"), "Merge",
           <<TT(l, 1, "Enter"), TT(l, 1, "NextIteration")>>, 1),
      Pair(NN(l, 1, "Switch"), "Switch",
           <<IF s.sw = "merge" THEN TT(l, 1, "Merge") ELSE TT(l, 1, "Enter"),
             TT(l, 0, "LoopCond")>>, 2)>>
    \o TrueNodes(l, 1, s.t1)
    \o <<Pair(NN(l, 1, "body"), "Add", <<Entry1(l, s), TT(l, 0, "EnterInv")>>, 1),
         Pair(NN(l, 1, "NextIteration"), "NextIteration", <<TT(l, 1, "body")>>, 1)>>
    \o FalseNodes(l, 1, s.f1, FALSE)

\* variable 2: a state variable, or the flow of a tensor array written once per
\* iteration; s.dup makes its Merge read the Enter node of variable 1
Var2Nodes(l, s) ==
    (IF s.v2 = "ta"
     THEN <<Pair(NN(l, 2, "init"), "TensorArrayV3", <<>>, 2),
            Pair(NN(l, 2, "EnterH"), "Enter", <<TT(l, 2, "init")>>, 1),
            Pair(NN(l, 2, "Enter"), "Enter", <<Tensor(NN(l, 2, "init"), 2)>>, 1)>>
     ELSE <<Pair(NN(l, 2, "init"), "Placeholder", <<>>, 1),
            Pair(NN(l, 2, "Enter"), "Enter", <<TT(l, 2, "init")>>, 1)>>)
    \o <<Pair(NN(l, 2, "Merge"), "Merge",
              <<IF s.dup THEN TT(l, 1, "Enter") ELSE TT(l, 2, "Enter"),
                TT(l, 2, "NextIteration")>>, 1),
         Pair(NN(l, 2, "Switch"), "Switch",
              <<TT(l, 2, "Merge"), TT(l, 0, "LoopCond")>>, 2)>>
    \o TrueNodes(l, 2, "identity")
    \o (IF s.v2 = "ta"
        THEN <<Pair(NN(l, 2, "val"), "Mul", <<Operand2(l, s), TT(l, 0, "EnterInv")>>, 1),
               Pair(NN(l, 2, "Write"), "TensorArrayWriteV3",
                    <<TT(l, 2, "EnterH"), Entry1(l, s), TT(l, 2, "val"),
                      TT(l, 2, "Identity")>>, 1),
               Pair(NN(l, 2, "NextIteration"), "NextIteration", <<TT(l, 2, "Write")>>, 1)>>
        ELSE <<Pair(NN(l, 2, "body"), "Add", <<TT(l, 2, "Identity"), Operand2(l, s)>>, 1),
               Pair(NN(l, 2, "NextIteration"), "NextIteration", <<TT(l, 2, "body")>>, 1)>>)
    \o FalseNodes(l, 2, s.f2, s.v2 = "ta")

\* an input tensor array: TensorArrayV3 -> scatter of the data -> one read per
\* iteration, indexed by the body-entry value of variable 2
ScanInputNodes(l, s) ==
    IF s.scan
    THEN <<Pair(NN(l, 3, "init"), "TensorArrayV3", <<>>, 2),
           Pair(NN(l, 3, "data"), "Placeholder", <<>>, 1),
           Pair(NN(l, 3, "Scatter"), "TensorArrayScatterV3",
                <<TT(l, 3, "init"), TT(l, 3, "data"), TT(l, 3, "data"),
                  Tensor(NN(l, 3, "init"), 2)>>, 1),
           Pair(NN(l, 3, "EnterTA"), "Enter", <<TT(l, 3, "init")>>, 1),
           Pair(NN(l, 3, "EnterSc"), "Enter", <<TT(l, 3, "Scatter")>>, 1),
           Pair(NN(l, 3, "Read"), "TensorArrayReadV3",
                <<TT(l, 3, "EnterTA"), TT(l, 2, "Identity"), TT(l, 3, "EnterSc")>>, 1)>>
    ELSE <<>>

\* s.lc = "extra": the LoopCond output has a consumer that is no Switch
ProbeNodes(l, s) ==
    IF s.lc = "extra"
    THEN <<Pair(NN(l, 0, "Probe"), "Neg", <<TT(l, 0, "LoopCond")>>, 1)>>
    ELSE <<>>

\* the nodes of the loop l of shape s, in listing order
LoopNodes(l, s) ==
    CondNodes(l, s) \o Var1Nodes(l, s) \o Var2Nodes(l, s) \o ScanInputNodes(l, s)
    \o ProbeNodes(l, s)

\* every shape of a loop: how the two Switch outputs of variable 1 are consumed,
\* the kind and exit of variable 2, what the predicate reads, what the invariant
\* Enter node brings in, and the deviations from the idiom
AllShapes ==
    [t1 : {"identity", "none", "other", "two"}, f1 : {"exit", "none", "other", "two"},
     v2 : {"state", "ta"}, f2 : {"exit", "none"},
     ca : {"merge", "enter"}, cb : {"merge", "enter"}, inv : {"Const", "Placeholder"},
     scan : BOOLEAN, sw : {"merge", "enter"}, lc : {"switch", "extra"}, dup : BOOLEAN]

\* the deviations of a shape from the loop idiom
Deviations(s) ==
    {d \in {"t1", "f1", "sw", "lc", "dup"} :
        \/ d = "t1" /\ s.t1 \in {"other", "two"}
        \/ d = "f1" /\ s.f1 \in {"other", "two"}
        \/ d = "sw" /\ s.sw = "enter"
        \/ d = "lc" /\ s.lc = "extra"
        \/ d = "dup" /\ s.dup}

\* the shapes of a single loop: the idiom, or one deviation from it
Shapes == {s \in AllShapes : Cardinality(Deviations(s)) <= 1}

\* the shapes of the loops of a graph of several loops: structurally valid loops
ValidShapes ==
    [t1 : {"identity"}, f1 : {"exit"},
     v2 : {"state", "ta"}, f2 : {"exit"},
     ca : {"merge"}, cb : {"enter"}, inv : {"Placeholder"},
     scan : {FALSE}, sw : {"merge"}, lc : {"switch"}, dup : {FALSE}]

RECURSIVE Concat(_)
Concat(ss) == IF ss = <<>> THEN <<>> ELSE Head(ss) \o Concat(Tail(ss))

\* the orders in which n loops may be listed
Perms(n) == {p \in [1..n -> 1..n] : \A i, j \in 1..n : p[i] = p[j] => i = j}

\* the graph of n loops of the shapes ss, listed in the order p
LoopGraph(n, ss, p) == Concat([i \in 1..n |-> LoopNodes(p[i], ss[p[i]])])

NodesOf(pairs) ==
    [n \in {pairs[i][1] : i \in DOMAIN pairs} |->
        (CHOOSE i \in DOMAIN pairs : pairs[i][1] = n) ]
PairMap(pairs) == [n \in DOMAIN NodesOf(pairs) |-> pairs[NodesOf(pairs)[n]][2]]
PairNames(pairs) == [i \in DOMAIN pairs |-> pairs[i][1]]

\* the declared outputs: the values the loops leave behind
ResultsOf(ns) == {Tensor(n, 1) : n \in {m \in DOMAIN ns : m[3] = "Result"}}

\* the optimizer's variables while the rewriter runs
IdleMergeVars ==
    /\ graph_can_be_optimized = TRUE
    /\ nodes_groups = <<>>
    /\ gi = 1
    /\ runs = 0
    /\ rounds = 0
    /\ merges = <<>>
    /\ fixed = <<>>

InitLoop ==
    /\ \E n \in 1..MaxLoops :
       \E ss \in [1..n -> IF n = 1 THEN Shapes ELSE ValidShapes] :
       \E p \in Perms(n) :
          LET pairs == LoopGraph(n, ss, p)
          IN /\ g_nodes = PairMap(pairs)
             /\ g_order = PairNames(pairs)
             /\ g_outputs \in {ResultsOf(PairMap(pairs))}
                                \cup (IF n = 1 THEN {{}} ELSE {})
    /\ g0 = [ns |-> g_nodes, ord |-> g_order]
    /\ pc = "start"
    /\ loopcond_ops = <<>>
    /\ li = 1
    /\ context = <<>>
    /\ switch_nodes = <<>>
    /\ si = 1
    /\ error = "none"
    /\ done = <<>>
    /\ IdleMergeVars

\* ------------------------------------------------ graph queries used below
NoNode == NN(0, 0, "None")

\* Graph.get_node_by_output(tensor): the node of the graph producing it, or None
get_node_by_output(ns, ord, t) ==
    IF \E n \in Range(ord) : t \in Range(ns[n].output)
    THEN CHOOSE n \in Range(ord) : t \in Range(ns[n].output)
    ELSE NoNode

\* Node.inputs: the producers of the node's inputs
node_inputs(ns, ord, n) ==
    [i \in DOMAIN ns[n].input |-> get_node_by_output(ns, ord, ns[n].input[i])]

\* Node.is_const()
is_const(node) == node.type = "Const"

\* rnn_utils.is_tensor_array_op / is_tensor_array_write_op / is_tensor_array_gather_op
is_tensor_array_op(node) == node.type = "TensorArrayV3"
is_tensor_array_write_op(node) == node.type = "TensorArrayWriteV3"
is_tensor_array_gather_op(node) == node.type = "TensorArrayGatherV3"

\* ------------------------------------------------------------ classification
Raised(e) == [kind |-> "raise", err |-> e]
ReturnedNone == [kind |-> "none", err |-> "none"]
Returned(v) == [kind |-> "var", err |-> "none", var |-> v]

\* LoopVariable(...)
LoopVariable(enter_name, enter_input_id, next_iteration_input_id, switch_true_identity_output_id, exit_output_id, is_tensor_array, ta_index_id) ==
    [enter_name |-> enter_name, enter_input_id |-> enter_input_id,
     next_iteration_input |-> next_iteration_input_id,
     switch_true_identity_output |-> switch_true_identity_output_id,
     exit_output |-> exit_output_id, is_tensor_array |-> is_tensor_array,
     ta_index_id |-> ta_index_id]

\* _get_loop_var_from_switch, lines 341-352: the consumers of the true output
switch_true(ns, ord, switch_node) ==
    LET switch_consumers == find_output_consumers(ns, ord, ns[switch_node].output[2])
        switch_true_consumer_cnt == Len(switch_consumers)
    IN IF switch_true_consumer_cnt = 0 THEN [kind |-> "var", err |-> "none", id |-> None]
       ELSE IF switch_true_consumer_cnt = 1
            THEN IF ns[switch_consumers[1]].type # "Identity"
                 THEN Raised("switch has consumer that is not Identity")
                 ELSE [kind |-> "var", err |-> "none",
                       id |-> ns[switch_consumers[1]].output[1]]
            ELSE Raised("switch_true has unexpected count of consumers")

\* _get_loop_var_from_switch, lines 362-375: the consumers of the false output
switch_false(ns, ord, switch_node) ==
    LET switch_false_consumers == find_output_consumers(ns, ord, ns[switch_node].output[1])
        false_consumer_count == Len(switch_false_consumers)
    IN IF false_consumer_count = 1
       THEN IF ns[switch_false_consumers[1]].type # "Exit"
            THEN Raised("switch false branch is followed by non-Exit")
            ELSE [kind |-> "var", err |-> "none",
                  id |-> ns[switch_false_consumers[1]].output[1]]
       ELSE IF false_consumer_count = 0
            THEN [kind |-> "var", err |-> "none", id |-> None]
            ELSE Raised("unexpected number of switch false consumers")

\* _get_loop_var_from_switch, lines 377-397: the tensor array case and the result
loop_var_of(ns, ord, enter_node, next_iteration_node, true_id, exit_id) ==
    LET target_node_input_id == ns[enter_node].input[1]
        last_iteration_output_id == ns[next_iteration_node].input[1]
        target == get_node_by_output(ns, ord, target_node_input_id)
    IN IF target = NoNode THEN Raised("AttributeError")
       ELSE IF ~is_tensor_array_op(ns[target])
       THEN Returned(LoopVariable(enter_node, target_node_input_id,
                                last_iteration_output_id, true_id, exit_id, FALSE, None))
       ELSE LET ta_write_node == get_node_by_output(ns, ord, last_iteration_output_id)
            IN IF ta_write_node = NoNode THEN Raised("AttributeError")
               ELSE IF ~is_tensor_array_write_op(ns[ta_write_node])
               THEN Raised("ta nextiteration is not following ta write op")
               ELSE LET gathers ==
                            FilterNames(find_output_consumers(ns, ord, exit_id),
                                        {n \in Range(ord) : is_tensor_array_gather_op(ns[n])})
                    IN IF exit_id # None /\ gathers = <<>> THEN Raised("IndexError")
                       ELSE Returned(LoopVariable(
                                enter_node, target_node_input_id,
                                ns[ta_write_node].input[3], true_id,
                                IF exit_id # None THEN ns[gathers[1]].output[1] ELSE None,
                                TRUE, ns[ta_write_node].input[2]))

\* mutant: with several consumers of the true output, the first one is taken
get_loop_var_first_consumer(ns, ord, switch_node) ==
    LET merge_node == node_inputs(ns, ord, switch_node)[1]
        cons == find_output_consumers(ns, ord, ns[switch_node].output[2])
        t == IF cons = <<>> THEN None ELSE ns[cons[1]].output[1]
        f == switch_false(ns, ord, switch_node)
        ins == node_inputs(ns, ord, merge_node)
        enters == FilterNames(ins, {n \in Range(ins) : n # NoNode /\ ns[n].type = "Enter"})
        nexts == FilterNames(ins, {n \in Range(ins) :
                                      n # NoNode /\ ns[n].type = "NextIteration"})
    IN IF merge_node = NoNode \/ ns[merge_node].type # "Merge" THEN ReturnedNone
       ELSE IF enters = <<>> \/ nexts = <<>> THEN Raised("IndexError")
       ELSE IF f.kind = "raise" THEN f
       ELSE loop_var_of(ns, ord, enters[1], nexts[1], t, f.id)

\* _get_loop_var_from_switch(switch_node)
get_loop_var_from_switch(ns, ord, switch_node) ==
    IF ns[switch_node].type # "Switch" THEN ReturnedNone
    ELSE
    LET merge_node == node_inputs(ns, ord, switch_node)[1]
    IN IF merge_node = NoNode THEN Raised("AttributeError")
       ELSE IF ns[merge_node].type # "Merge" THEN ReturnedNone
       ELSE
       LET t == switch_true(ns, ord, switch_node)
           ins == node_inputs(ns, ord, merge_node)
           enters == FilterNames(ins, {n \in Range(ins) : n # NoNode /\ ns[n].type = "Enter"})
           nexts == FilterNames(ins, {n \in Range(ins) :
                                         n # NoNode /\ ns[n].type = "NextIteration"})
       IN IF t.kind = "raise" THEN t
          ELSE IF NoNode \in Range(ins) THEN Raised("AttributeError")
          ELSE IF enters = <<>> THEN Raised("IndexError")
          ELSE IF get_node_by_output(ns, ord, ns[enters[1]].input[1]) = NoNode
               THEN Raised("AttributeError")
          ELSE IF nexts = <<>> THEN Raised("IndexError")
          ELSE LET f == switch_false(ns, ord, switch_node)
               IN IF f.kind = "raise" THEN f
                  ELSE loop_var_of(ns, ord, enters[1], nexts[1], t.id, f.id)

\* LoopProperties()
LoopProperties == [state_variables |-> <<>>, scan_variables |-> <<>>,
                   tensor_array_inputs |-> <<>>]

\* LoopProperties.all_variables
all_variables(props) == props.state_variables \o props.scan_variables

EnterNames(vs) == {vs[i].enter_name : i \in DOMAIN vs}

\* mutant: every variable goes to the state bucket
add_variable_state_only(props, r) ==
    IF r.kind = "raise" THEN [props |-> props, err |-> r.err]
    ELSE IF r.kind = "none" THEN [props |-> props, err |-> "AttributeError"]
    ELSE IF r.var.enter_name \in EnterNames(props.scan_variables)
         THEN [props |-> props, err |-> "variable already exists as scan variable"]
    ELSE IF r.var.enter_name \in EnterNames(props.state_variables)
         THEN [props |-> props, err |-> "variable already exists as state variable"]
    ELSE [props |-> [props EXCEPT !.state_variables = Append(@, r.var)], err |-> "none"]

\* mutant: the variable is filed without looking for its name in the buckets
add_variable_unchecked(props, r) ==
    IF r.kind = "raise" THEN [props |-> props, err |-> r.err]
    ELSE IF r.kind = "none" THEN [props |-> props, err |-> "AttributeError"]
    ELSE IF ~r.var.is_tensor_array
         THEN [props |-> [props EXCEPT !.state_variables = Append(@, r.var)],
               err |-> "none"]
         ELSE [props |-> [props EXCEPT !.scan_variables = Append(@, r.var)],
               err |-> "none"]

\* mutant: a Switch for which no variable was built is passed over
add_variable_skips_none(props, r) ==
    IF r.kind = "raise" THEN [props |-> props, err |-> r.err]
    ELSE IF r.kind = "none" THEN [props |-> props, err |-> "none"]
    ELSE IF r.var.enter_name \in EnterNames(props.scan_variables)
         THEN [props |-> props, err |-> "variable already exists as scan variable"]
    ELSE IF r.var.enter_name \in EnterNames(props.state_variables)
         THEN [props |-> props, err |-> "variable already exists as state variable"]
    ELSE IF ~r.var.is_tensor_array
         THEN [props |-> [props EXCEPT !.state_variables = Append(@, r.var)],
               err |-> "none"]
         ELSE [props |-> [props EXCEPT !.scan_variables = Append(@, r.var)],
               err |-> "none"]

\* loop_var = self._get_loop_var_from_switch(s);
\* context.loop_properties.add_variable(loop_var), with r the outcome of the first
add_variable(props, r) ==
    IF r.kind = "raise" THEN [props |-> props, err |-> r.err]
    ELSE IF r.kind = "none" THEN [props |-> props, err |-> "AttributeError"]
    ELSE IF r.var.enter_name \in EnterNames(props.scan_variables)
         THEN [props |-> props, err |-> "variable already exists as scan variable"]
    ELSE IF r.var.enter_name \in EnterNames(props.state_variables)
         THEN [props |-> props, err |-> "variable already exists as state variable"]
    ELSE IF ~r.var.is_tensor_array
         THEN [props |-> [props EXCEPT !.state_variables = Append(@, r.var)],
               err |-> "none"]
         ELSE [props |-> [props EXCEPT !.scan_variables = Append(@, r.var)],
               err |-> "none"]

\* one pass of the for loop of _parse_loop_variables
parse_switch(ns, ord, props, s) ==
    IF ns[s].type # "Switch"
    THEN [props |-> props,
          err |-> "LoopCond's output node should be followed with a Switch node"]
    ELSE add_variable(props, get_loop_var_from_switch(ns, ord, s))

RECURSIVE parse_switches(_, _, _, _, _)
parse_switches(ns, ord, acc, switches, i) ==
    IF i > Len(switches) \/ acc.err # "none" THEN acc
    ELSE parse_switches(ns, ord, parse_switch(ns, ord, acc.props, switches[i]),
                        switches, i + 1)

\* _parse_loop_variables(context): the loop properties it leaves, or the error
parse_loop_variables(ns, ord, loop_cond) ==
    parse_switches(ns, ord, [props |-> LoopProperties, err |-> "none"],
                   find_output_consumers(ns, ord, ns[loop_cond].output[1]), 1)

\* ------------------------------------------------------- input tensor arrays
\* GraphMatcher(self.ta_read_input_pattern, allow_reorder=False).match_ops: the
\* TensorArrayReadV3 nodes reading Enter(TensorArrayV3), Identity and
\* Enter(TensorArrayScatterV3), in listing order
match_ta_read(ns, ord) ==
    LET P(n, i) == get_node_by_output(ns, ord, ns[n].input[i])
        IsEnterOf(e, type) ==
            /\ e # NoNode /\ ns[e].type = "Enter" /\ Len(ns[e].input) = 1
            /\ P(e, 1) # NoNode /\ ns[P(e, 1)].type = type
    IN FilterNames(ord, {n \in Range(ord) :
            /\ ns[n].type = "TensorArrayReadV3" /\ Len(ns[n].input) = 3
            /\ IsEnterOf(P(n, 1), "TensorArrayV3")
            /\ P(n, 2) # NoNode /\ ns[P(n, 2)].type = "Identity"
            /\ IsEnterOf(P(n, 3), "TensorArrayScatterV3")})

\* InputTensorArray(data_input_id, index_input_id, consumer_id, g)
InputTensorArray(data_input_id, index_input_id, consumer_id) ==
    [data_input_id |-> data_input_id, index_input_id |-> index_input_id,
     consumer |-> consumer_id]

\* _parse_input_ta(context): the loop properties with the scan inputs added
parse_input_ta(ns, ord, props) ==
    LET vs == all_variables(props)
        graph_inputs == {vs[i].switch_true_identity_output : i \in DOMAIN vs} \ {None}
        P(n, i) == get_node_by_output(ns, ord, ns[n].input[i])
        reads == match_ta_read(ns, ord)
        match_results ==
            FilterNames(reads, {n \in Range(reads) : ns[P(n, 2)].output[1] \in graph_inputs})
    IN [props EXCEPT !.tensor_array_inputs =
          @ \o [k \in DOMAIN match_results |->
                  InputTensorArray(ns[P(P(match_results[k], 3), 1)].input[3],
                                   ns[match_results[k]].input[2],
                                   ns[match_results[k]].output[1])]]

\* LoopProperties' derived views
state_inputs(props) ==
    [i \in DOMAIN props.state_variables |->
        props.state_variables[i].switch_true_identity_output]
state_inputs_initial_values(props) ==
    [i \in DOMAIN props.state_variables |-> props.state_variables[i].enter_input_id]
state_outputs(props) ==
    [i \in DOMAIN props.state_variables |-> props.state_variables[i].next_iteration_input]
scan_outputs(props) ==
    [i \in DOMAIN props.scan_variables |-> props.scan_variables[i].next_iteration_input]
scan_inputs(props) ==
    [i \in DOMAIN props.tensor_array_inputs |-> props.tensor_array_inputs[i].consumer]
scan_inputs_initial_values(props) ==
    [i \in DOMAIN props.tensor_array_inputs |-> props.tensor_array_inputs[i].data_input_id]

\* ------------------------------------------------------------ cell isolation
\* mutant: every NextIteration / TensorArrayWrite node is cut, whatever it reads
cut_variable_all(g, val) ==
    LET n == get_node_by_output(g.ns, g.ord, val.switch_true_identity_output)
        ord1 == IF val.switch_true_identity_output # None
                THEN remove_node(g.ord, n) ELSE g.ord
        kind == IF val.is_tensor_array THEN "TensorArrayWriteV3" ELSE "NextIteration"
        ends == {m \in Range(ord1) : g.ns[m].type = kind}
    IN [ns |-> [m \in DOMAIN g.ns |->
                  IF m \in ends
                  THEN [g.ns[m] EXCEPT !.input = [i \in DOMAIN @ |-> INVALID_INPUT_ID]]
                  ELSE g.ns[m]],
        ord |-> ord1, err |-> "none"]

\* one pass of the first for loop of _cut_off_connection_for_cell
cut_variable(g, val) ==
    LET n == get_node_by_output(g.ns, g.ord, val.switch_true_identity_output)
    IN IF val.switch_true_identity_output # None /\ n = NoNode
       THEN [g EXCEPT !.err = "AttributeError"]
       ELSE
       LET ord1 == IF val.switch_true_identity_output # None
                   THEN remove_node(g.ord, n) ELSE g.ord
           kind == IF val.is_tensor_array THEN "TensorArrayWriteV3" ELSE "NextIteration"
           ends == {m \in Range(ord1) : g.ns[m].type = kind}
       IN [ns |-> replace_all_inputs(g.ns, ends, val.next_iteration_input,
                                     INVALID_INPUT_ID),
           ord |-> ord1, err |-> "none"]

\* one pass of the second for loop of _cut_off_connection_for_cell
cut_scan_input(g, scan_input) ==
    LET n == get_node_by_output(g.ns, g.ord, scan_input)
    IN IF n = NoNode THEN [g EXCEPT !.err = "AttributeError"]
       ELSE [g EXCEPT !.ord = remove_node(g.ord, n)]

RECURSIVE cut_variables(_, _, _)
cut_variables(g, vals, i) ==
    IF i > Len(vals) \/ g.err # "none" THEN g
    ELSE cut_variables(cut_variable(g, vals[i]), vals, i + 1)

RECURSIVE cut_scan_inputs(_, _, _)
cut_scan_inputs(g, ins, i) ==
    IF i > Len(ins) \/ g.err # "none" THEN g
    ELSE cut_scan_inputs(cut_scan_input(g, ins[i]), ins, i + 1)

\* _cut_off_connection_for_cell(context)
cut_off_connection_for_cell(ns, ord, props) ==
    cut_scan_inputs(
        cut_variables([ns |-> ns, ord |-> ord, err |-> "none"], all_variables(props), 1),
        scan_inputs(props), 1)

\* ------------------------------------------------------------------ cropping
\* find_subgraph's find_input_boundary(node): FALSE where the search ends
find_input_boundary(ns, n, input_ids, merge_as_end) ==
    IF ns[n].type = "Enter" THEN FALSE
    ELSE IF merge_as_end /\ ns[n].type = "Merge" THEN FALSE
    ELSE IF is_const(ns[n]) THEN FALSE
    ELSE Range(ns[n].output) \cap input_ids = {}

\* the nodes of the graph producing an input of a node of the set S
ProducersOf(ns, ord, S) ==
    {p \in Range(ord) : \E n \in S : Range(ns[p].output) \cap Range(ns[n].input) # {}}

RECURSIVE search(_, _, _, _, _, _)
\* Graph.extract_sub_graph_nodes: the nodes reached backwards from the frontier,
\* the search going on only through the nodes of the set inner
search(ns, ord, res, frontier, inner, seen) ==
    IF frontier = {} THEN [nodes |-> res, seen |-> seen]
    ELSE LET met == ProducersOf(ns, ord, frontier) \ (res \cup frontier)
         IN search(ns, ord, res \cup frontier, met \cap inner, inner, seen \cup met)

\* find_subgraph(input_ids, output_ids, g, merge_as_end): the nodes, and the Enter
\* and Merge nodes at which the search ended
find_subgraph(ns, ord, input_ids, output_ids, merge_as_end) ==
    LET inner == {n \in Range(ord) : find_input_boundary(ns, n, input_ids, merge_as_end)}
        dest == {n \in Range(ord) : Range(ns[n].output) \cap output_ids # {}}
        r == search(ns, ord, {}, dest \cap inner, inner, dest)
    IN [nodes |-> r.nodes,
        enter_nodes |-> {n \in r.seen : ns[n].type = "Enter"},
        merge_nodes |-> {n \in r.seen : merge_as_end /\ ns[n].type = "Merge"}]

RECURSIVE connect_enters(_, _, _, _)
\* for enter_node in enter_nodes:
\*     self.g.replace_all_inputs(ops, enter_node.output[0], enter_node.input[0])
connect_enters(ns, ops, enters, i) ==
    IF i > Len(enters) THEN ns
    ELSE connect_enters(
            replace_all_inputs(ns, ops, ns[enters[i]].output[1], ns[enters[i]].input[1]),
            ops, enters, i + 1)

\* GraphInfo(ops, inputs, outputs); enter_nodes is history: the Enter nodes at
\* which the cropping ended
GraphInfo(ops, inputs, outputs, dependent_vars, enter_nodes) ==
    [nodes |-> ops, inputs |-> inputs, outputs |-> outputs,
     dependent_vars |-> dependent_vars, enter_nodes |-> enter_nodes]

\* mutant: the Enter nodes at the boundary are kept in the body
crop_loop_body_with_enters(ns, ord, props, enters_in_order) ==
    LET inputs == state_inputs(props) \o scan_inputs(props)
        outputs == state_outputs(props) \o scan_outputs(props)
        r == find_subgraph(ns, ord, Range(inputs), Range(outputs), FALSE)
    IN [ns |-> connect_enters(ns, r.nodes, enters_in_order, 1),
        info |-> GraphInfo(r.nodes \cup r.enter_nodes, inputs, outputs, <<>>,
                           r.enter_nodes)]

\* the search of _crop_loop_body_sub_graph
body_subgraph(ns, ord, props) ==
    find_subgraph(ns, ord, Range(state_inputs(props) \o scan_inputs(props)),
                  Range(state_outputs(props) \o scan_outputs(props)), FALSE)

\* _crop_loop_body_sub_graph(context): the graph it leaves and the GraphInfo, the
\* set enter_nodes being iterated in the order enters_in_order
crop_loop_body_sub_graph(ns, ord, props, enters_in_order) ==
    LET inputs == state_inputs(props) \o scan_inputs(props)
        outputs == state_outputs(props) \o scan_outputs(props)
        r == find_subgraph(ns, ord, Range(inputs), Range(outputs), FALSE)
    IN [ns |-> connect_enters(ns, r.nodes, enters_in_order, 1),
        info |-> GraphInfo(r.nodes, inputs, outputs, <<>>, r.enter_nodes)]

\* all_variables[enter_node.name]: the variable of that key, if any
VarsNamed(props, name) ==
    LET vs == all_variables(props)
    IN {vs[i] : i \in {j \in DOMAIN vs : vs[j].enter_name = name}}

\* one pass of the for loop over merge_nodes of _crop_loop_condition_sub_graph
cut_merge(g, props, merge_node) ==
    LET ins == node_inputs(g.ns, g.ord, merge_node)
        enters == FilterNames(ins, {n \in Range(ins) : n # NoNode /\ g.ns[n].type = "Enter"})
    IN IF NoNode \in Range(ins) THEN [g EXCEPT !.err = "AttributeError"]
       ELSE IF enters = <<>> THEN [g EXCEPT !.err = "IndexError"]
       ELSE IF VarsNamed(props, enters[1]) = {} THEN [g EXCEPT !.err = "KeyError"]
       ELSE
       LET loop_var == CHOOSE v \in VarsNamed(props, enters[1]) : TRUE
           cons == find_output_consumers(g.ns, g.ord, g.ns[merge_node].output[1])
           non_switch_consumers == {n \in Range(cons) : g.ns[n].type # "Switch"}
       IN [ns |-> replace_all_inputs(g.ns, non_switch_consumers,
                                     g.ns[merge_node].output[1],
                                     loop_var.switch_true_identity_output),
           ord |-> g.ord,
           dependent_vars |-> Append(g.dependent_vars, loop_var),
           err |-> "none"]

RECURSIVE cut_merges(_, _, _, _)
cut_merges(g, props, merges_in_order, i) ==
    IF i > Len(merges_in_order) \/ g.err # "none" THEN g
    ELSE cut_merges(cut_merge(g, props, merges_in_order[i]), props, merges_in_order, i + 1)

\* the orders in which a set may be iterated
Orders(S) ==
    {f \in [1..Cardinality(S) -> S] : \A i, j \in 1..Cardinality(S) : f[i] = f[j] => i = j}

\* the search of _crop_loop_condition_sub_graph: from the input of LoopCond, with
\* no inputs, ending at Merge nodes too
cond_subgraph(ns, ord, loop_cond) ==
    find_subgraph(ns, ord, {}, {ns[loop_cond].input[1]}, TRUE)

\* mutant: every loop variable is listed as a dependency
crop_loop_condition_all_vars(ns, ord, props, loop_cond, enters_in_order, merges_in_order) ==
    LET r == cond_subgraph(ns, ord, loop_cond)
        ns1 == connect_enters(ns, r.nodes, enters_in_order, 1)
        g == cut_merges([ns |-> ns1, ord |-> ord, dependent_vars |-> <<>>,
                         err |-> "none"], props, merges_in_order, 1)
    IN [ns |-> replace_all_inputs(g.ns, {loop_cond}, ns[loop_cond].output[1],
                                  INVALID_INPUT_ID),
        err |-> g.err,
        info |-> GraphInfo(r.nodes, <<>>, <<ns[loop_cond].input[1]>>,
                           all_variables(props), r.enter_nodes),
        merge_nodes |-> r.merge_nodes]

\* _crop_loop_condition_sub_graph(context), the sets enter_nodes and merge_nodes
\* being iterated in the orders enters_in_order and merges_in_order
crop_loop_condition_sub_graph(ns, ord, props, loop_cond, enters_in_order, merges_in_order) ==
    LET r == cond_subgraph(ns, ord, loop_cond)
        ns1 == connect_enters(ns, r.nodes, enters_in_order, 1)
        g == cut_merges([ns |-> ns1, ord |-> ord, dependent_vars |-> <<>>,
                         err |-> "none"], props, merges_in_order, 1)
    IN [ns |-> replace_all_inputs(g.ns, {loop_cond}, ns[loop_cond].output[1],
                                  INVALID_INPUT_ID),
        err |-> g.err,
        info |-> GraphInfo(r.nodes, <<>>, <<ns[loop_cond].input[1]>>, g.dependent_vars,
                           r.enter_nodes),
        merge_nodes |-> r.merge_nodes]

\* ------------------------------------------------- the strategy and the cleanup
\* rewrite(context) of a subclass, when it succeeds: a Loop node over the initial
\* values replaces the loop; the consumers of the exit tensors read its outputs
RECURSIVE rewire_exits(_, _, _, _, _)
rewire_exits(ns, ops, vs, loop_node, i) ==
    IF i > Len(vs) THEN ns
    ELSE rewire_exits(
            IF vs[i].exit_output = None THEN ns
            ELSE replace_all_inputs(ns, ops, vs[i].exit_output, Tensor(loop_node, i)),
            ops, vs, loop_node, i + 1)

rewrite_ok(ns, ord, props, loop_cond) ==
    LET loop_node == NN(loop_cond[1], 0, "Loop")
        vs == all_variables(props)
        node == MkNode(loop_node, "Loop",
                       state_inputs_initial_values(props)
                           \o scan_inputs_initial_values(props), Len(vs), 0)
    IN [ns |-> rewire_exits((loop_node :> node) @@ ns, Range(ord), vs, loop_node, 1),
        ord |-> Append(ord, loop_node)]

\* Graph.delete_unused_nodes(outputs): the listing of the nodes the outputs need
delete_unused_nodes(ns, ord, outputs) ==
    LET dest == {n \in Range(ord) : Range(ns[n].output) \cap outputs # {}}
    IN FilterNames(ord, search(ns, ord, {}, dest, Range(ord), dest).nodes)

\* rnn_utils.is_loopcond_op
is_loopcond_op(node) == node.type = "LoopCond"

\* ---------------------------------------------------------------- the pass
\* GraphInfo not yet computed
NoGraph == GraphInfo({}, <<>>, <<>>, <<>>, {})

\* Context(), with loop_cond set
Context(loop_cond) ==
    [loop_cond |-> loop_cond, loop_properties |-> LoopProperties,
     cell_graph |-> NoGraph, cond_graph |-> NoGraph, merge_nodes |-> {}]

\* what is remembered of a loop the pass is through with
Handled(result) ==
    [loop_cond |-> context.loop_cond, loop_properties |-> context.loop_properties,
     cell_graph |-> context.cell_graph, cond_graph |-> context.cond_graph,
     merge_nodes |-> context.merge_nodes, result |-> result]

\* mutant: the listing stops at the first LoopCond node
Discover_first_only ==
    /\ pc = "start"
    /\ loopcond_ops' = SubSeq(FilterNames(g_order, {n \in Range(g_order) :
                                                      is_loopcond_op(g_nodes[n])}), 1, 1)
    /\ li' = 1
    /\ pc' = "loop"
    /\ UNCHANGED <<gvars, g0, mvars, context, switch_nodes, si, error, done>>

\* run_internal: every LoopCond node of the graph is listed before any is handled
Discover ==
    /\ pc = "start"
    /\ loopcond_ops' = FilterNames(g_order, {n \in Range(g_order) : is_loopcond_op(g_nodes[n])})
    /\ li' = 1
    /\ pc' = "loop"
    /\ UNCHANGED <<gvars, g0, mvars, context, switch_nodes, si, error, done>>

\* for op in loopcond_ops: context = self.create_context(); context.loop_cond = op;
\* _parse_loop_variables lists the consumers of the LoopCond output
BeginLoop ==
    /\ pc = "loop" /\ li <= Len(loopcond_ops)
    /\ context' = Context(loopcond_ops[li])
    /\ switch_nodes' = find_output_consumers(g_nodes, g_order,
                                             g_nodes[loopcond_ops[li]].output[1])
    /\ si' = 1
    /\ pc' = "parse"
    /\ UNCHANGED <<gvars, g0, mvars, loopcond_ops, li, error, done>>

\* _parse_loop_variables: one consumer is classified and registered
ParseSwitch ==
    /\ pc = "parse" /\ si <= Len(switch_nodes)
    /\ LET r == parse_switch(g_nodes, g_order, context.loop_properties, switch_nodes[si])
       IN /\ r.err = "none"
          /\ context' = [context EXCEPT !.loop_properties = r.props]
    /\ si' = si + 1
    /\ UNCHANGED <<gvars, g0, mvars, loopcond_ops, li, switch_nodes, pc, error, done>>

\* _parse_loop_variables: classifying or registering a consumer raises
ParseRaises ==
    /\ pc = "parse" /\ si <= Len(switch_nodes)
    /\ LET r == parse_switch(g_nodes, g_order, context.loop_properties, switch_nodes[si])
       IN /\ r.err # "none"
          /\ error' = r.err
    /\ pc' = "raised"
    /\ UNCHANGED <<gvars, g0, mvars, loopcond_ops, li, context, switch_nodes, si, done>>

\* _parse_input_ta, once every consumer is registered
ParseInputTa ==
    /\ pc = "parse" /\ si > Len(switch_nodes)
    /\ context' = [context EXCEPT !.loop_properties = parse_input_ta(g_nodes, g_order, @)]
    /\ pc' = "need"
    /\ UNCHANGED <<gvars, g0, mvars, loopcond_ops, li, switch_nodes, si, error, done>>

\* need_rewrite(context) of the subclass answers True
NeedRewrite ==
    /\ pc = "need"
    /\ pc' = "cut"
    /\ UNCHANGED <<gvars, g0, mvars, lvars>>

\* mutant: the cell is cut off although need_rewrite(context) answers False
NoRewrite_cuts ==
    /\ pc = "need"
    /\ LET r == cut_off_connection_for_cell(g_nodes, g_order, context.loop_properties)
       IN g_nodes' = r.ns /\ g_order' = r.ord
    /\ done' = Append(done, Handled("none"))
    /\ li' = li + 1
    /\ pc' = "loop"
    /\ UNCHANGED <<g_outputs, g0, mvars, loopcond_ops, context, switch_nodes, si, error>>

\* need_rewrite(context) of the subclass answers False: on to the next LoopCond
NoRewrite ==
    /\ pc = "need"
    /\ done' = Append(done, Handled("none"))
    /\ li' = li + 1
    /\ pc' = "loop"
    /\ UNCHANGED <<gvars, g0, mvars, loopcond_ops, context, switch_nodes, si, error>>

\* self._cut_off_connection_for_cell(context)
CutOffConnectionForCell ==
    /\ pc = "cut"
    /\ LET r == cut_off_connection_for_cell(g_nodes, g_order, context.loop_properties)
       IN /\ g_nodes' = r.ns
          /\ g_order' = r.ord
          /\ error' = r.err
          /\ pc' = IF r.err = "none" THEN "crop_cell" ELSE "raised"
    /\ UNCHANGED <<g_outputs, g0, mvars, loopcond_ops, li, context, switch_nodes, si, done>>

\* context.cell_graph = self._crop_loop_body_sub_graph(context); enter_nodes is
\* a set, iterated in some order
CropLoopBodySubGraph ==
    /\ pc = "crop_cell"
    /\ \E es \in Orders(body_subgraph(g_nodes, g_order,
                                      context.loop_properties).enter_nodes) :
          LET r == crop_loop_body_sub_graph(g_nodes, g_order,
                                            context.loop_properties, es)
          IN /\ g_nodes' = r.ns
             /\ context' = [context EXCEPT !.cell_graph = r.info]
    /\ pc' = "crop_cond"
    /\ UNCHANGED <<g_order, g_outputs, g0, mvars, loopcond_ops, li, switch_nodes, si,
                   error, done>>

\* context.cond_graph = self._crop_loop_condition_sub_graph(context); enter_nodes
\* and merge_nodes are sets, iterated in some order
CropLoopConditionSubGraph ==
    /\ pc = "crop_cond"
    /\ \E es \in Orders(cond_subgraph(g_nodes, g_order, context.loop_cond).enter_nodes) :
       \E ms \in Orders(cond_subgraph(g_nodes, g_order, context.loop_cond).merge_nodes) :
          LET r == crop_loop_condition_sub_graph(g_nodes, g_order,
                       context.loop_properties, context.loop_cond, es, ms)
          IN /\ g_nodes' = IF r.err = "none" THEN r.ns ELSE g_nodes
             /\ context' = IF r.err = "none"
                           THEN [context EXCEPT !.cond_graph = r.info,
                                                !.merge_nodes = r.merge_nodes]
                           ELSE context
             /\ error' = r.err
             /\ pc' = IF r.err = "none" THEN "rewrite" ELSE "raised"
    /\ UNCHANGED <<g_order, g_outputs, g0, mvars, loopcond_ops, li, switch_nodes, si, done>>

\* self.rewrite(context) returns REWRITER_RESULT.OK
RewriteOk ==
    /\ pc = "rewrite"
    /\ LET r == rewrite_ok(g_nodes, g_order, context.loop_properties, context.loop_cond)
       IN g_nodes' = r.ns /\ g_order' = r.ord
    /\ done' = Append(done, Handled("OK"))
    /\ li' = li + 1
    /\ pc' = "loop"
    /\ UNCHANGED <<g_outputs, g0, mvars, loopcond_ops, context, switch_nodes, si, error>>

\* mutant: SKIP ends the for loop
RewriteSkip_breaks ==
    /\ pc = "rewrite"
    /\ done' = Append(done, Handled("SKIP"))
    /\ li' = Len(loopcond_ops) + 1
    /\ pc' = "loop"
    /\ UNCHANGED <<gvars, g0, mvars, loopcond_ops, context, switch_nodes, si, error>>

\* self.rewrite(context) returns REWRITER_RESULT.SKIP: continue
RewriteSkip ==
    /\ pc = "rewrite"
    /\ done' = Append(done, Handled("SKIP"))
    /\ li' = li + 1
    /\ pc' = "loop"
    /\ UNCHANGED <<gvars, g0, mvars, loopcond_ops, context, switch_nodes, si, error>>

\* mutant: the graph is cleaned before the error is raised
RewriteFail_cleans ==
    /\ pc = "rewrite"
    /\ error' = "rewrite failed, so just fast fail it"
    /\ pc' = "raised"
    /\ g_order' = delete_unused_nodes(g_nodes, g_order, g_outputs)
    /\ UNCHANGED <<g_nodes, g_outputs, g0, mvars, loopcond_ops, li, context,
                   switch_nodes, si, done>>

\* self.rewrite(context) returns REWRITER_RESULT.FAIL
RewriteFail ==
    /\ pc = "rewrite"
    /\ error' = "rewrite failed, so just fast fail it"
    /\ pc' = "raised"
    /\ UNCHANGED <<gvars, g0, mvars, loopcond_ops, li, context, switch_nodes, si, done>>

\* mutant: the pass returns without cleaning the graph
Cleanup_skipped ==
    /\ pc = "loop" /\ li > Len(loopcond_ops)
    /\ pc' = "returned"
    /\ UNCHANGED <<gvars, g0, mvars, lvars>>

\* if self.g.outputs: self.g.delete_unused_nodes(self.g.outputs);
\* return self.g.get_nodes()
Cleanup ==
    /\ pc = "loop" /\ li > Len(loopcond_ops)
    /\ g_order' = IF g_outputs # {}
                  THEN delete_unused_nodes(g_nodes, g_order, g_outputs)
                  ELSE g_order
    /\ pc' = "returned"
    /\ UNCHANGED <<g_nodes, g_outputs, g0, mvars, lvars>>

NextLoop ==
    \/ Discover
    \/ BeginLoop
    \/ ParseSwitch
    \/ ParseRaises
    \/ ParseInputTa
    \/ NeedRewrite
    \/ NoRewrite
    \/ CutOffConnectionForCell
    \/ CropLoopBodySubGraph
    \/ CropLoopConditionSubGraph
    \/ RewriteOk
    \/ RewriteSkip
    \/ RewriteFail
    \/ Cleanup

SpecLoop == InitLoop /\ [][NextLoop]_vars

\* ------------------------------------------------ classification: C6 and C7
\* the variables registered so far
Registered == all_variables(context.loop_properties)

\* _parse_loop_variables is at work, or has raised: the graph is as it found it
Parsing == pc = "parse" \/ (pc = "raised" /\ si <= Len(switch_nodes))

MergeOf(s) == node_inputs(g_nodes, g_order, s)[1]
IsLoopSwitch(s) ==
    /\ g_nodes[s].type = "Switch"
    /\ MergeOf(s) # NoNode /\ g_nodes[MergeOf(s)].type = "Merge"
\* the Enter node a Switch leads to through its Merge node
EnterOf(s) ==
    LET ins == node_inputs(g_nodes, g_order, MergeOf(s))
    IN FilterNames(ins, {n \in Range(ins) : n # NoNode /\ g_nodes[n].type = "Enter"})[1]
VarsOf(s) == {v \in Range(Registered) : v.enter_name = EnterOf(s)}
TrueConsumers(s) == find_output_consumers(g_nodes, g_order, g_nodes[s].output[2])
FalseConsumers(s) == find_output_consumers(g_nodes, g_order, g_nodes[s].output[1])
\* the Switch nodes classified and registered so far
Classified == {switch_nodes[k] : k \in 1..Min2(si - 1, Len(switch_nodes))}

TrueBranchErrors ==
    {"switch has consumer that is not Identity",
     "switch_true has unexpected count of consumers"}

\* C6: a Switch is classified by the consumer count of its true output: with none
\* the body-entry tensor is recorded absent, with one Identity node it is that
\* node's output; with one consumer that is no Identity, or with two or more, an
\* error is raised and no variable is registered for the Switch.
C6_TrueBranchByConsumerCount ==
    Parsing =>
      /\ \A s \in Classified :
            /\ Len(TrueConsumers(s)) <= 1
            /\ VarsOf(s) # {}
            /\ \A v \in VarsOf(s) :
                  \/ /\ TrueConsumers(s) = <<>>
                     /\ v.switch_true_identity_output = None
                  \/ /\ Len(TrueConsumers(s)) = 1
                     /\ g_nodes[TrueConsumers(s)[1]].type = "Identity"
                     /\ v.switch_true_identity_output
                           = g_nodes[TrueConsumers(s)[1]].output[1]
      /\ (pc = "raised" /\ IsLoopSwitch(switch_nodes[si])
             /\ switch_true(g_nodes, g_order, switch_nodes[si]).kind = "raise" =>
            /\ error \in TrueBranchErrors
            /\ Len(Registered) = si - 1)

\* a Switch of a loop has two consumers of its true output, and raised
C6_Witness ==
    /\ pc = "raised" /\ si <= Len(switch_nodes) /\ IsLoopSwitch(switch_nodes[si])
    /\ Len(TrueConsumers(switch_nodes[si])) = 2
    /\ error = "switch_true has unexpected count of consumers"
    /\ Len(Registered) = si - 1

\* the producer of the initial value of the Enter node is a tensor array
EntersTensorArray(s) ==
    LET p == get_node_by_output(g_nodes, g_order, g_nodes[EnterOf(s)].input[1])
    IN p # NoNode /\ g_nodes[p].type = "TensorArrayV3"

\* a loop of one counter, its body-entry used once and its false branch unread,
\* and one tensor array written in the loop
CounterAndScanOutput ==
    /\ Len(loopcond_ops) = 1 /\ Len(switch_nodes) = 2
    /\ \E c \in Range(switch_nodes) : \E t \in Range(switch_nodes) :
          /\ c # t /\ IsLoopSwitch(c) /\ IsLoopSwitch(t)
          /\ ~EntersTensorArray(c) /\ EntersTensorArray(t)
          /\ Len(TrueConsumers(c)) = 1 /\ FalseConsumers(c) = <<>>

\* C7: a variable is a scan variable exactly when the producer of the initial value
\* of its Enter node is a tensor array, a state variable otherwise; its exit
\* tensor is absent exactly when the false output of the Switch has no consumer;
\* the loop of one counter and one tensor array registers one state variable, its
\* exit absent, and one scan variable.
C7_BucketsAndExit ==
    /\ Parsing =>
         \A s \in Classified : \A v \in VarsOf(s) :
            /\ v.is_tensor_array <=> EntersTensorArray(s)
            /\ v \in Range(context.loop_properties.scan_variables)
                  <=> EntersTensorArray(s)
            /\ v \in Range(context.loop_properties.state_variables)
                  <=> ~EntersTensorArray(s)
            /\ v.exit_output = None <=> FalseConsumers(s) = <<>>
    /\ (pc = "parse" /\ si > Len(switch_nodes) /\ CounterAndScanOutput =>
          /\ Len(context.loop_properties.state_variables) = 1
          /\ Len(context.loop_properties.scan_variables) = 1
          /\ context.loop_properties.state_variables[1].exit_output = None)

\* the loop of one counter and one tensor array is classified
C7_Witness ==
    /\ pc = "parse" /\ si > Len(switch_nodes) /\ CounterAndScanOutput
    /\ Len(Registered) = 2

\* ------------------------------------------------------ cropping: C8 and C9
\* the Enter node of a Merge node
EnterOfMerge(m) ==
    LET ins == node_inputs(g0.ns, g0.ord, m)
    IN FilterNames(ins, {n \in Range(ins) : n # NoNode /\ g0.ns[n].type = "Enter"})[1]

\* the Merge nodes that produce an input of a node of the condition subgraph
MergesRead ==
    {m \in ProducersOf(g0.ns, g0.ord, context.cond_graph.nodes) :
        g0.ns[m].type = "Merge"}

\* C8: once the condition subgraph is cropped, its dependency list holds exactly
\* the loop variables whose Merge node the cropping reached as a boundary: each
\* of them once, and no other variable.
C8_DependentVarsAreMergesReached ==
    pc = "rewrite" =>
      LET dv == context.cond_graph.dependent_vars
      IN /\ context.merge_nodes = MergesRead
         /\ \A m \in context.merge_nodes :
               Cardinality({k \in DOMAIN dv : dv[k].enter_name = EnterOfMerge(m)}) = 1
         /\ \A k \in DOMAIN dv :
               /\ dv[k] \in Range(Registered)
               /\ \E m \in context.merge_nodes : dv[k].enter_name = EnterOfMerge(m)
         /\ Len(dv) = Cardinality(context.merge_nodes)

\* the condition reads one variable of two: one dependency is listed
C8_Witness ==
    /\ pc = "rewrite" /\ Len(Registered) = 2
    /\ Cardinality(context.merge_nodes) = 1
    /\ Len(context.cond_graph.dependent_vars) = 1

\* the body subgraph computed again on the graph as the cropping leaves it
Recomputed ==
    find_subgraph(g_nodes, g_order, Range(context.cell_graph.inputs),
                  Range(context.cell_graph.outputs), FALSE).nodes

\* the Enter nodes that a node of the body subgraph read before the rewiring
EntersRead ==
    {e \in context.cell_graph.enter_nodes :
        \E n \in context.cell_graph.nodes :
            g0.ns[e].output[1] \in Range(g0.ns[n].input)}

\* what is reached backwards from the input of an Enter node, the search ending
\* where the search of the body ends
BehindEnter(e) ==
    find_subgraph(g_nodes, g_order, Range(context.cell_graph.inputs),
                  {g_nodes[e].input[1]}, FALSE).nodes

\* the search ends at once at the input of every Enter node the body read
EntersReadEndSearch ==
    \A e \in EntersRead :
        LET p == get_node_by_output(g_nodes, g_order, g_nodes[e].input[1])
        IN \/ p = NoNode
           \/ ~find_input_boundary(g_nodes, p, Range(context.cell_graph.inputs), FALSE)

\* C9 as stated: after _crop_loop_body_sub_graph, its rewiring included, the
\* search from the recorded outputs, with the same inputs and the same boundary
\* predicate, yields exactly the recorded node set.
C9_RecomputedIsCropped ==
    pc = "crop_cond" => Recomputed = context.cell_graph.nodes

\* C9 amended: the search done again yields the recorded node set together with
\* what is reached backwards from the input of each Enter node the body read;
\* the two sets are equal when the search ends at once at each of these inputs.
C9_RecomputedIsCroppedAndBehindEnters ==
    pc = "crop_cond" =>
      /\ Recomputed = context.cell_graph.nodes
                         \cup UNION {BehindEnter(e) : e \in EntersRead}
      /\ (EntersReadEndSearch => Recomputed = context.cell_graph.nodes)
      /\ context.cell_graph.nodes \cap context.cell_graph.enter_nodes = {}

\* the body read an Enter node that brings in what a graph input produces: the
\* search done again reaches that producer
C9_Witness ==
    /\ pc = "crop_cond" /\ EntersRead # {}
    /\ \E n \in Recomputed \ context.cell_graph.nodes : g_nodes[n].type = "Placeholder"

\* ----------------------------------------------------- several loops: C10
\* the loops of the graph handed to the pass
LoopsOf(g) == {n[1] : n \in Range(g.ord)}
\* the nodes of the loop l, as listed
Alone(l) == FilterNames(g0.ord, {n \in Range(g0.ord) : n[1] = l})
\* the classification of the loop l taken alone, before the pass changes anything
ClassifiedAlone(l) == parse_loop_variables(g0.ns, Alone(l), NN(l, 0, "LoopCond"))
\* every loop of the graph is structurally valid
AllValid == \A l \in LoopsOf(g0) : ClassifiedAlone(l).err = "none"

SameVariables(props, l) ==
    /\ props.state_variables = ClassifiedAlone(l).props.state_variables
    /\ props.scan_variables = ClassifiedAlone(l).props.scan_variables

\* C10: in a graph of N independent valid loops, N LoopCond nodes are found, and
\* the classification of each loop succeeds and registers the variables it
\* registers for the loop alone, in whatever order the loops are handled and
\* whatever was done to the loops handled before.
C10_EachLoopClassifiedAsAlone ==
    /\ (pc = "loop" /\ AllValid =>
          /\ Len(loopcond_ops) = Cardinality(LoopsOf(g0))
          /\ {loopcond_ops[i][1] : i \in DOMAIN loopcond_ops} = LoopsOf(g0)
          /\ \A i \in DOMAIN done :
                SameVariables(done[i].loop_properties, done[i].loop_cond[1]))
    /\ (pc = "raised" /\ si <= Len(switch_nodes) => ~AllValid)
    /\ (pc = "need" /\ AllValid =>
          SameVariables(context.loop_properties, context.loop_cond[1]))

\* the loop listed second is classified after the first is cut, cropped and rewritten
C10_Witness ==
    /\ AllValid /\ pc = "need" /\ Len(loopcond_ops) = 2
    /\ Len(done) = 1 /\ done[1].result = "OK"
    /\ done[1].loop_cond[1] = 2
    /\ Len(Registered) = 2

\* ------------------------------------------------- the outcomes: C11
\* the pass has raised because rewrite(context) returned FAIL
Failed == pc = "raised" /\ error = "rewrite failed, so just fast fail it"

\* the nodes of the loop l listed in a graph
ListedOf(ord, l) == {n \in Range(ord) : n[1] = l}

\* the nodes _cut_off_connection_for_cell removes for the loop properties
CutNodes(props) ==
    {n \in Range(g0.ord) :
        Range(g0.ns[n].output)
          \cap ({all_variables(props)[i].switch_true_identity_output :
                    i \in DOMAIN all_variables(props)}
                \cup Range(scan_inputs(props))) # {}}

\* the cuts made for the loop properties are in the graph
CutsInPlace(props, l) ==
    /\ ListedOf(g_order, l) \ {NN(l, 0, "Loop")} = ListedOf(g0.ord, l) \ CutNodes(props)
    /\ \A i \in DOMAIN all_variables(props) :
          \A n \in ListedOf(g_order, l) :
              g_nodes[n].type \in {"NextIteration", "TensorArrayWriteV3"} =>
                  all_variables(props)[i].next_iteration_input \notin Range(g_nodes[n].input)

\* the loops not yet begun are as they were handed in
LaterLoopsUntouched ==
    \A j \in (li + 1)..Len(loopcond_ops) :
        LET l == loopcond_ops[j][1]
        IN /\ ListedOf(g_order, l) = ListedOf(g0.ord, l)
           /\ \A n \in ListedOf(g0.ord, l) : g_nodes[n] = g0.ns[n]

\* C11: when rewrite(context) returns FAIL the pass raises at once: the loops
\* listed after this one are not handled and not touched, the cleanup has not
\* run, and the cuts made for this loop stay in the graph.
C11_FailAbortsAtOnce ==
    Failed =>
      /\ li <= Len(loopcond_ops) /\ context.loop_cond = loopcond_ops[li]
      /\ Len(done) = li - 1
      /\ LaterLoopsUntouched
      /\ CutsInPlace(context.loop_properties, context.loop_cond[1])

\* the first loop of two fails, a body-entry Identity node of it being removed
C11_Witness ==
    /\ Failed /\ li = 1 /\ Len(loopcond_ops) = 2
    /\ CutNodes(context.loop_properties) # {}
    /\ g_outputs # {}

\* ------------------------------------------------- the order of loops: C12
\* the LoopCond nodes of the graph handed in, as listed
LoopCondsHandedIn ==
    FilterNames(g0.ord, {n \in Range(g0.ord) : is_loopcond_op(g0.ns[n])})

\* the pass is at work on the loop li
AtLoop == pc \in {"parse", "need", "cut", "crop_cell", "crop_cond", "rewrite", "raised"}

\* C12: the LoopCond nodes handled are those of the graph before any change, each
\* once and in the order of that listing, whatever nodes the handling of an
\* earlier loop adds or removes.
C12_LoopsAsFirstListed ==
    pc # "start" =>
      /\ loopcond_ops = LoopCondsHandedIn
      /\ \A i \in DOMAIN done : done[i].loop_cond = LoopCondsHandedIn[i]
      /\ Len(done) = li - 1
      /\ (AtLoop => li <= Len(loopcond_ops) /\ context.loop_cond = LoopCondsHandedIn[li])
      /\ (pc = "returned" => Len(done) = Len(LoopCondsHandedIn))

\* two loops, the one listed first rewritten, both handled and the pass returned
C12_Witness ==
    /\ pc = "returned" /\ Len(done) = 2 /\ done[1].result = "OK"
    /\ Range(g_order) # Range(g0.ord)
    /\ done[1].loop_cond[1] = 2 /\ done[2].loop_cond[1] = 1

\* ------------------------------------------------------ the cleanup: C13
RECURSIVE Needed(_)
\* the nodes listed that the tensors of the set ts need, directly or not
Needed(ts) ==
    LET ps == {n \in Range(g_order) : Range(g_nodes[n].output) \cap ts # {}}
        more == ts \cup UNION {Range(g_nodes[n].input) : n \in ps}
    IN IF more = ts THEN ps ELSE Needed(more)

\* every node listed is needed by a declared output
AllNeeded == Range(g_order) = Needed(g_outputs)

\* nothing but the cuts has left the graph
OnlyCutsGone ==
    \A i \in DOMAIN done :
        LET l == done[i].loop_cond[1]
        IN ListedOf(g_order, l) \ {NN(l, 0, "Loop")}
             = ListedOf(g0.ord, l) \ (IF done[i].result = "none" THEN {}
                                      ELSE CutNodes(done[i].loop_properties))

\* C13 as stated: when the pass has returned, every node left in the graph is
\* backward-reachable from a declared output.
C13_AllNeededOnReturn ==
    pc = "returned" => AllNeeded

\* C13 amended: when the pass has returned from a graph that declares an output,
\* every node left in the graph is backward-reachable from a declared output;
\* from a graph that declares none, no cleanup has run and no node but those the
\* cuts removed has left the graph.
C13_AllNeededIfOutputsDeclared ==
    pc = "returned" =>
      /\ (g_outputs # {} => AllNeeded)
      /\ (g_outputs = {} => OnlyCutsGone)

\* the pass has returned from a graph of declared outputs, a loop rewritten and
\* nodes dropped
C13_Witness ==
    /\ pc = "returned" /\ g_outputs # {}
    /\ \E i \in DOMAIN done : done[i].result = "OK"
    /\ ~OnlyCutsGone

\* ------------------------------------------------------ the buckets: C14
DuplicateErrors ==
    {"variable already exists as scan variable",
     "variable already exists as state variable"}

\* the names of a bucket are those of different variables
UniqueNames(vs) == Cardinality(EnterNames(vs)) = Len(vs)

BucketsDisjoint(props) ==
    /\ EnterNames(props.state_variables) \cap EnterNames(props.scan_variables) = {}
    /\ UniqueNames(props.state_variables) /\ UniqueNames(props.scan_variables)
    /\ \A v \in Range(props.state_variables) : ~v.is_tensor_array
    /\ \A v \in Range(props.scan_variables) : v.is_tensor_array

\* the Switch node at hand gives a variable of a name already registered
NameRegistered ==
    /\ IsLoopSwitch(switch_nodes[si])
    /\ get_loop_var_from_switch(g_nodes, g_order, switch_nodes[si]).kind = "var"
    /\ EnterOf(switch_nodes[si]) \in EnterNames(Registered)

\* C14: while a loop is classified, and after, the names of the state bucket and
\* of the scan bucket are disjoint and each is the name of one variable; a
\* variable of a name already in a bucket is not registered: an error is raised
\* and the buckets stay as they were.
C14_BucketsDisjoint ==
    /\ AtLoop => BucketsDisjoint(context.loop_properties)
    /\ \A i \in DOMAIN done : BucketsDisjoint(done[i].loop_properties)
    /\ (Parsing /\ si <= Len(switch_nodes) =>
          /\ (pc = "raised" /\ NameRegistered =>
                error \in DuplicateErrors /\ Len(Registered) = si - 1)
          /\ (pc = "raised" /\ error \in DuplicateErrors => NameRegistered))

\* the second Switch node of a loop leads to the Enter node of the first: raised
C14_Witness ==
    /\ pc = "raised" /\ si = 2 /\ NameRegistered
    /\ error = "variable already exists as state variable"
    /\ Len(Registered) = 1

\* ------------------------------------------------------------ SKIP: C15
\* what the cut and the two croppings did for a loop handled is in the graph
RemnantsInPlace(d) ==
    /\ CutsInPlace(d.loop_properties, d.loop_cond[1])
    /\ \A e \in d.cell_graph.enter_nodes : \A n \in d.cell_graph.nodes :
          g_nodes[e].output[1] \notin Range(g_nodes[n].input)
    /\ \A e \in d.cond_graph.enter_nodes : \A n \in d.cond_graph.nodes :
          g_nodes[e].output[1] \notin Range(g_nodes[n].input)
    /\ \A m \in d.merge_nodes :
          \A n \in Range(find_output_consumers(g_nodes, g_order, g_nodes[m].output[1])) :
              g_nodes[n].type = "Switch"

\* C15: when rewrite(context) returns SKIP, what the cut and the croppings did for
\* the loop stays in the graph, the next LoopCond node listed is handled, and
\* the cleanup runs after the last.
C15_SkipLeavesCutsAndGoesOn ==
    (\E i \in DOMAIN done : done[i].result = "SKIP") =>
      /\ pc # "returned" =>
            \A i \in DOMAIN done : done[i].result = "SKIP" => RemnantsInPlace(done[i])
      /\ pc = "loop" => Len(done) = li - 1
      /\ pc = "returned" =>
            /\ Len(done) = Len(loopcond_ops)
            /\ (g_outputs # {} => AllNeeded)

\* the first loop of two was skipped, the second is cut
C15_Witness ==
    /\ Len(done) = 1 /\ done[1].result = "SKIP" /\ pc = "crop_cell"
    /\ done[1].merge_nodes # {} /\ done[1].cell_graph.enter_nodes # {}
    /\ CutNodes(done[1].loop_properties) # {}

\* =========================================== MergeDuplicatedNodesOptimizer
\* ------------------------------------------------------ termination: C16
RECURSIVE GroupedFrom(_)
\* the number of nodes the round at hand grouped: those of the graph at its start
GroupedFrom(k) ==
    IF k > Len(nodes_groups) THEN 0 ELSE Len(nodes_groups[k]) + GroupedFrom(k + 1)
Grouped == GroupedFrom(1)

\* the nodes of the graph when the invocation at hand, or the last, began
NodesAtInvocation ==
    IF runs = 0 \/ (runs = 1 /\ pc = "idle") THEN Len(g0.ord) ELSE Len(fixed.ord)

\* C16: the optimizer terminates: a round is followed by another exactly when it
\* deleted a node, and each round that is followed by another leaves fewer nodes
\* than it found, so an invocation on N nodes runs at most N rounds.
C16_RoundsDecreaseNodes ==
    rounds >= 1 =>
      /\ Len(g_order) <= Grouped
      /\ (pc = "while" => (graph_can_be_optimized <=> Len(g_order) < Grouped))
      /\ (pc = "idle" /\ runs >= 1 /\ nodes_groups # <<>> => Len(g_order) = Grouped)
      /\ Grouped <= NodesAtInvocation - (rounds - 1)
      /\ rounds <= NodesAtInvocation

\* an invocation has ended after three rounds: two that deleted, one that did not
C16_Witness ==
    /\ pc = "idle" /\ runs = 1 /\ rounds = 3
    /\ Len(g_order) = Len(g0.ord) - 2

\* --------------------------------------------------------- rewiring: C17
\* the deletions of the step at hand leave every reader of an output of a deleted
\* node reading the same output of the node retained
ReadersFollow ==
    \A k \in (Len(merges) + 1)..Len(merges') :
        /\ Len(merges'[k].d.output) <= Len(merges'[k].r.output)
        /\ \A n \in Range(g_order') : \A slot \in DOMAIN g_nodes[n].input :
              \A j \in DOMAIN merges'[k].d.output :
                  g_nodes[n].input[slot] = merges'[k].d.output[j] =>
                      g_nodes'[n].input[slot] = merges'[k].r.output[j]

\* no node of the graph reads an output of a node deleted
NoneReadsDeleted ==
    \A n \in Range(g_order) : \A x \in DOMAIN g_nodes \ Range(g_order) :
        Range(g_nodes[n].input) \cap Range(g_nodes[x].output) = {}

\* C17: when a duplicate is deleted, every node that read its i-th output reads
\* the i-th output of the node retained afterwards; so, after any number of
\* rounds, no node of the graph reads an output of a node deleted.
C17_ReadersRewired == [][ReadersFollow]_vars /\ []NoneReadsDeleted

\* a node with two outputs was deleted, the second of them read by a node that is
\* still in the graph
C17_Witness ==
    \E k \in DOMAIN merges : \E n \in Range(g_order) :
        /\ Len(merges[k].d.output) = 2
        /\ merges[k].d.output[2] \in Range(g0.ns[n].input)
        /\ merges[k].r.output[2] \in Range(g_nodes[n].input)

\* ------------------------------------------- the LoopCond output edge: C18
\* the nodes of the graph that read the output of the loop-condition node
LoopCondReaders(l) ==
    {n \in Range(g_order) : g_nodes[l].output[1] \in Range(g_nodes[n].input)}

\* C18: after the condition subgraph of a loop is cropped, no node of the graph
\* still has the output of the loop-condition node as an input (its consumer
\* reads the invalid id instead).
C18_LoopCondOutputSevered ==
    pc = "rewrite" => LoopCondReaders(context.loop_cond) = {}

\* ------------------------------------- a Switch not fed by a Merge node: C19
\* the consumer at hand is a Switch node whose first operand no Merge node produces
NotFedByMerge(s) == g_nodes[s].type = "Switch" /\ ~IsLoopSwitch(s)

\* C19: when a Switch consumer of the loop-condition output has a first operand
\* that no Merge node produces, the classification of the loop fails with an error
\* and no loop variable is registered for that Switch: every Switch passed is fed
\* by a Merge node, and the variables registered are those of the Switch nodes
\* passed.
C19_SwitchNotFedByMergeFails ==
    Parsing =>
      /\ \A s \in Classified : g_nodes[s].type = "Switch" => IsLoopSwitch(s)
      /\ Len(Registered) = Cardinality(Classified)
      /\ (pc = "raised" /\ NotFedByMerge(switch_nodes[si]) => error # "none")

C19_Witness ==
    /\ pc = "raised" /\ si <= Len(switch_nodes)
    /\ NotFedByMerge(switch_nodes[si])
    /\ error = "AttributeError"
    /\ Len(Registered) = si - 1

\* ------------------------------------- rounds of a later invocation: C20
\* C20: every invocation of the optimizer on a graph runs at least one round of
\* grouping and merging, whatever earlier invocations of the same instance did.
C20_EveryInvocationRunsARound ==
    pc = "idle" /\ runs >= 1 => rounds >= 1

\* ------------------------------------ classification reads only: C21
\* a step of the classification of a loop: the loop is begun, a consumer is
\* classified, the input tensor arrays are matched, need_rewrite is asked
ClassificationStep ==
    \/ pc = "loop" /\ li <= Len(loopcond_ops)
    \/ pc = "parse"
    \/ pc = "need"

\* the nodes of the loop l are listed and wired as in the graph handed in
LoopAsHandedIn(l) ==
    /\ ListedOf(g_order, l) = ListedOf(g0.ord, l)
    /\ \A n \in ListedOf(g0.ord, l) : g_nodes[n] = g0.ns[n]

\* the loops classified and not rewritten, and the loop being classified, are as
\* handed in, and no subgraph was cropped for them
UnrewrittenAsHandedIn ==
    pc # "returned" =>
      /\ \A i \in DOMAIN done :
            done[i].result = "none" =>
              /\ LoopAsHandedIn(done[i].loop_cond[1])
              /\ done[i].cell_graph = NoGraph /\ done[i].cond_graph = NoGraph
      /\ (Parsing \/ pc = "need" =>
              /\ LoopAsHandedIn(context.loop_cond[1])
              /\ context.cell_graph = NoGraph /\ context.cond_graph = NoGraph)

\* C21: the classification of a loop leaves the graph unchanged: no step of it
\* changes a node, the listing or the outputs, so when it raises, or when
\* need_rewrite answers False, the graph is as it was before the loop was begun,
\* and nothing is cut or cropped for that loop.
C21_ClassificationReadsOnly ==
    /\ [][ClassificationStep => UNCHANGED gvars]_vars
    /\ []UnrewrittenAsHandedIn

\* the first loop was rewritten, the second was classified with a body-entry node
\* to cut and then left alone
C21_Witness ==
    /\ pc = "loop" /\ Len(done) = 2
    /\ done[1].result = "OK" /\ done[2].result = "none"
    /\ CutNodes(done[2].loop_properties) # {}
    /\ g_nodes # g0.ns

\* ------------------------------------------ merging is complete: C22
\* the graphs an optimizer instance is handed after its first
OtherGraphs == ChainGraphs \cup AddGraphs

\* _optimize_at_current_graph_level(graph) is entered again on the same optimizer
\* instance, with another graph
InvokeOnOtherGraph ==
    /\ pc = "idle"
    /\ runs >= 1
    /\ runs < MaxRuns
    /\ \E g \in OtherGraphs :
       \E outs \in OutputChoices(g) :
          /\ g_nodes' = g
          /\ g_order' = Names(g)
          /\ g_outputs' = outs
          /\ g0' = [ns |-> g, ord |-> Names(g)]
    /\ pc' = "while"
    /\ nodes_groups' = <<>>
    /\ gi' = 1
    /\ rounds' = 0
    /\ merges' = <<>>
    /\ fixed' = g0'
    /\ UNCHANGED <<graph_can_be_optimized, runs, lvars>>

NextReuse ==
    \/ Construct
    \/ Invoke
    \/ InvokeOnOtherGraph
    \/ StartRound
    \/ SkipGroup
    \/ DelNodesIfDuplicated
    \/ Return

\* an optimizer instance that is applied to one graph after another
SpecReuse == InitMerge /\ [][NextReuse]_vars

\* the node has no output among the declared outputs of the graph
NoDeclaredOutput(n) == Range(g_nodes[n].output) \cap g_outputs = {}

\* C22: when the optimizer stops, the merging is complete: among the nodes that
\* are not exempt and share type, ordered inputs and attribute map, at most one
\* has no output among the declared outputs of the graph.
C22_MergingComplete ==
    pc = "idle" /\ runs >= 1 =>
      \A a \in Range(g_order) : \A b \in Range(g_order) :
          Duplicates(g_nodes, a, b) /\ ~Exempt(g_nodes[a]) =>
              ~(NoDeclaredOutput(a) /\ NoDeclaredOutput(b))

====
